---- MODULE Spec2Model ----
(***************************************************************************)
(* Model of zenta_dashboard.py: the projection calculator                  *)
(* calculate_projections (lines 6-31) and the Streamlit script around it   *)
(* (lines 34-106), which Streamlit re-executes from top to bottom every    *)
(* time a widget value changes.                                            *)
(*                                                                         *)
(* Numbers.  The widgets are created with integer min_value/value/step, so *)
(* every input is a Python int.  The two true divisions (lines 18, 19)     *)
(* yield floats; they are modelled by exact fractions in lowest terms      *)
(* ([num, den], den > 0).  A division by zero raises ZeroDivisionError in  *)
(* Python; the fraction with den = 0 marks that.                           *)
(***************************************************************************)
EXTENDS Integers, Sequences, FiniteSets

VARIABLES
    years_list,          \* line 101: the `years` argument of the call
    units_sold,          \* line 97
    hardware_price,      \* line 57
    hardware_cost,       \* line 73
    subscription_fee,    \* line 65
    subscription_cost,   \* line 81
    initial_investment,  \* line 49
    data                 \* line 102: what the call produced

vars == <<years_list, units_sold, hardware_price, hardware_cost,
          subscription_fee, subscription_cost, initial_investment, data>>

(***************************************************************************)
(* Bounds of the model                                                     *)
(***************************************************************************)
\* longest year sequence the calculator is called with directly
MaxLen == 3
\* largest "Number of Years" the dashboard user selects (the widget allows 10)
YearsShown == 5

(***************************************************************************)
(* Widget parameters (lines 42-97)                                         *)
(***************************************************************************)
YearsMin == 1
YearsMax == 10
YearsDefault == 5
WidgetMin == 0
InvestmentDefault == 6000000
HardwarePriceDefault == 15000
SubscriptionFeeDefault == 2000
HardwareCostDefault == 11000
SubscriptionCostDefault == 500
UnitsDefault == 100

(***************************************************************************)
(* Arithmetic                                                              *)
(***************************************************************************)
Abs(x) == IF x < 0 THEN -x ELSE x

Min(a, b) == IF a <= b THEN a ELSE b

RECURSIVE GCD(_, _)
GCD(a, b) == IF b = 0 THEN a ELSE GCD(b, a % b)

\* the fraction n/d (d # 0) in lowest terms with a positive denominator
Frac(n, d) ==
    LET g == GCD(Abs(n), Abs(d))
        s == IF d < 0 THEN -1 ELSE 1
    IN  [num |-> s * (n \div g), den |-> s * (d \div g)]

Zero == [num |-> 0, den |-> 1]

\* the mark of a division that raised ZeroDivisionError
ZeroDivision == [num |-> 0, den |-> 0]

\* a value produced silently by a division by zero (inf or nan)
Infinity == [num |-> 1, den |-> 0]

DivSilent(a, b) == IF b = 0 THEN Infinity ELSE Frac(a, b)

\* Python's a / b on ints: raises on a zero divisor
Div(a, b) == IF b = 0 THEN ZeroDivision ELSE Frac(a, b)

\* q * k for a fraction q and an int k; an operand that raised stays raised
MulInt(q, k) ==
    IF q.den = 0 THEN q
    ELSE LET g == GCD(Abs(k), q.den)
         IN  Frac(q.num * (k \div g), q.den \div g)

\* a <= b on fractions with positive denominators
Leq(a, b) == a.num * b.den <= b.num * a.den

(***************************************************************************)
(* Lists                                                                   *)
(***************************************************************************)
\* Python's sum(s)
RECURSIVE Sum(_)
Sum(s) == IF s = <<>> THEN 0 ELSE s[1] + Sum(Tail(s))

\* Python's s[:k]
Slice(s, k) == SubSeq(s, 1, Min(k, Len(s)))

\* Python's list(range(a, b))
Range(a, b) == [i \in 1..(b - a) |-> a + i - 1]

(***************************************************************************)
(* calculate_projections, lines 6-31.  Parameters: ys = years,             *)
(* us = units_sold, hp = hardware_price, hc = hardware_cost,               *)
(* sf = subscription_fee, sc = subscription_cost, inv = initial_investment.*)
(* A 0-based Python index i is the 1-based index i + 1 here.               *)
(***************************************************************************)
\* line 9 with the whole list summed for every year
total_units_in_market_all(us) == [i \in 1..Len(us) |-> Sum(us)]

\* line 9
total_units_in_market(us) == [i \in 1..Len(us) |-> Sum(Slice(us, i))]

\* line 10
hardware_revenue(us, hp) == [i \in 1..Len(us) |-> us[i] * hp]

\* line 11 charging the subscription on the year's new units only
recurring_revenue_new_units(ys, us, sf) == [i \in 1..Len(ys) |-> us[i] * sf]

\* line 11
recurring_revenue(ys, us, sf) ==
    [i \in 1..Len(ys) |-> total_units_in_market(us)[i] * sf]

\* line 12
total_revenue(ys, us, hp, sf) ==
    [i \in 1..Len(ys) |-> hardware_revenue(us, hp)[i] + recurring_revenue(ys, us, sf)[i]]

\* line 13 with the slice total_revenue[:i], one year short
cumulative_revenue_exclusive(ys, us, hp, sf) ==
    LET tr == total_revenue(ys, us, hp, sf)
    IN  [i \in 1..Len(tr) |-> Sum(Slice(tr, i - 1))]

\* line 13
cumulative_revenue(ys, us, hp, sf) ==
    LET tr == total_revenue(ys, us, hp, sf)
    IN  [i \in 1..Len(tr) |-> Sum(Slice(tr, i))]

\* line 14
hardware_costs(us, hc) == [i \in 1..Len(us) |-> us[i] * hc]

\* line 15
recurring_costs(ys, us, sc) ==
    [i \in 1..Len(ys) |-> total_units_in_market(us)[i] * sc]

\* line 16
total_costs(ys, us, hc, sc) ==
    [i \in 1..Len(ys) |-> hardware_costs(us, hc)[i] + recurring_costs(ys, us, sc)[i]]

\* line 17 subtracting the hardware costs only
profit_gross(ys, us, hp, hc, sf, sc) ==
    [i \in 1..Len(ys) |-> total_revenue(ys, us, hp, sf)[i] - hardware_costs(us, hc)[i]]

\* line 17
profit(ys, us, hp, hc, sf, sc) ==
    [i \in 1..Len(ys) |-> total_revenue(ys, us, hp, sf)[i] - total_costs(ys, us, hc, sc)[i]]

\* line 18 with the guard total_revenue[i] >= 0
profit_margin_unguarded(ys, us, hp, hc, sf, sc) ==
    LET tr == total_revenue(ys, us, hp, sf)
        pr == profit(ys, us, hp, hc, sf, sc)
    IN  [i \in 1..Len(ys) |->
            IF tr[i] >= 0 THEN MulInt(Div(pr[i], tr[i]), 100) ELSE Zero]

\* line 18
profit_margin(ys, us, hp, hc, sf, sc) ==
    LET tr == total_revenue(ys, us, hp, sf)
        pr == profit(ys, us, hp, hc, sf, sc)
    IN  [i \in 1..Len(ys) |->
            IF tr[i] > 0 THEN MulInt(Div(pr[i], tr[i]), 100) ELSE Zero]

\* line 19 with the operands of the subtraction exchanged
roi_inverted(ys, us, hp, sf, inv) ==
    LET cr == cumulative_revenue(ys, us, hp, sf)
    IN  [i \in 1..Len(ys) |-> MulInt(Div(inv - cr[i], inv), 100)]

\* line 19
roi(ys, us, hp, sf, inv) ==
    LET cr == cumulative_revenue(ys, us, hp, sf)
    IN  [i \in 1..Len(ys) |-> MulInt(Div(cr[i] - inv, inv), 100)]

\* the call ended in the exception `name`: no table is returned
Raised(name) == [outcome |-> name, rows |-> <<>>]

\* some element of the list comprehension raised ZeroDivisionError
RaisesZeroDivision(list) == \E i \in DOMAIN list : list[i] = ZeroDivision

\* lines 20-31: pd.DataFrame of a dict of lists; pandas raises ValueError
\* ("All arrays must be of the same length") when the lists differ in length
DataFrame(c) ==
    LET n == Len(c.Year)
    IN  IF \/ Len(c.UnitsSold) # n \/ Len(c.HardwareRevenue) # n
           \/ Len(c.RecurringRevenue) # n \/ Len(c.TotalRevenue) # n
           \/ Len(c.TotalCosts) # n \/ Len(c.Profit) # n
           \/ Len(c.ProfitMargin) # n \/ Len(c.CumulativeRevenue) # n
           \/ Len(c.ROI) # n
        THEN Raised("ValueError")
        ELSE [outcome |-> "ok",
              rows |-> [i \in 1..n |->
                 [Year |-> c.Year[i],
                  UnitsSold |-> c.UnitsSold[i],
                  HardwareRevenue |-> c.HardwareRevenue[i],
                  RecurringRevenue |-> c.RecurringRevenue[i],
                  TotalRevenue |-> c.TotalRevenue[i],
                  TotalCosts |-> c.TotalCosts[i],
                  Profit |-> c.Profit[i],
                  ProfitMargin |-> c.ProfitMargin[i],
                  CumulativeRevenue |-> c.CumulativeRevenue[i],
                  ROI |-> c.ROI[i]]]]

\* lines 6-31.  Line 11 indexes total_units_in_market (one entry per unit
\* count) with every index of years: IndexError when years is the longer.
calculate_projections(ys, us, hp, hc, sf, sc, inv) ==
    IF Len(ys) > Len(us) THEN Raised("IndexError")
    ELSE IF RaisesZeroDivision(profit_margin(ys, us, hp, hc, sf, sc))
         THEN Raised("ZeroDivisionError")
    ELSE IF RaisesZeroDivision(roi(ys, us, hp, sf, inv))
         THEN Raised("ZeroDivisionError")
    ELSE DataFrame([Year |-> ys,
                    UnitsSold |-> us,
                    HardwareRevenue |-> hardware_revenue(us, hp),
                    RecurringRevenue |-> recurring_revenue(ys, us, sf),
                    TotalRevenue |-> total_revenue(ys, us, hp, sf),
                    TotalCosts |-> total_costs(ys, us, hc, sc),
                    Profit |-> profit(ys, us, hp, hc, sf, sc),
                    ProfitMargin |-> profit_margin(ys, us, hp, hc, sf, sc),
                    CumulativeRevenue |-> cumulative_revenue(ys, us, hp, sf),
                    ROI |-> roi(ys, us, hp, sf, inv)])

(***************************************************************************)
(* The dashboard, lines 34-106.  Every change of a widget re-executes the  *)
(* whole script: the widgets are read (lines 42-97), years_list is rebuilt *)
(* (line 101), calculate_projections is called (line 102) and its table    *)
(* is displayed (line 106).  An exception ends the run and no table is     *)
(* shown.  A "Units Sold in Year k" widget that was not rendered in the    *)
(* previous run starts from its default value.                             *)
(***************************************************************************)
\* values the user types into the widgets; every widget has min_value=0
\* (the number of years: 1..10) and takes any integer from there on
YearChoices == YearsMin..Min(YearsMax, YearsShown)
InvestmentChoices == {WidgetMin, InvestmentDefault}
HardwarePriceChoices == {WidgetMin, HardwarePriceDefault}
SubscriptionFeeChoices == {WidgetMin, SubscriptionFeeDefault}
HardwareCostChoices == {WidgetMin, HardwareCostDefault}
SubscriptionCostChoices == {WidgetMin, SubscriptionCostDefault}
UnitChoices == {WidgetMin, UnitsDefault}

\* line 102 with hardware_price and hardware_cost exchanged in the call
RerunSwapped(ys, us, hp, hc, sf, sc, inv) ==
    calculate_projections(ys, us, hc, hp, sf, sc, inv)

\* line 102: the call of one script run
Rerun(ys, us, hp, hc, sf, sc, inv) ==
    calculate_projections(ys, us, hp, hc, sf, sc, inv)

\* line 97: one widget per year; a newly rendered one holds value=100
UnitsWidgets(n) ==
    [i \in 1..n |-> IF i <= Len(units_sold) THEN units_sold[i] ELSE UnitsDefault]

Init ==
    /\ years_list = Range(1, YearsDefault + 1)
    /\ units_sold = [i \in 1..YearsDefault |-> UnitsDefault]
    /\ hardware_price = HardwarePriceDefault
    /\ hardware_cost = HardwareCostDefault
    /\ subscription_fee = SubscriptionFeeDefault
    /\ subscription_cost = SubscriptionCostDefault
    /\ initial_investment = InvestmentDefault
    /\ data = Rerun(years_list, units_sold, hardware_price, hardware_cost,
                    subscription_fee, subscription_cost, initial_investment)

\* line 42
ChangeYears(n) ==
    /\ n # Len(years_list)
    /\ years_list' = Range(1, n + 1)
    /\ units_sold' = UnitsWidgets(n)
    /\ data' = Rerun(years_list', units_sold', hardware_price, hardware_cost,
                     subscription_fee, subscription_cost, initial_investment)
    /\ UNCHANGED <<hardware_price, hardware_cost, subscription_fee,
                   subscription_cost, initial_investment>>

\* line 49
ChangeInitialInvestment(v) ==
    /\ v # initial_investment
    /\ initial_investment' = v
    /\ data' = Rerun(years_list, units_sold, hardware_price, hardware_cost,
                     subscription_fee, subscription_cost, v)
    /\ UNCHANGED <<years_list, units_sold, hardware_price, hardware_cost,
                   subscription_fee, subscription_cost>>

\* line 57
ChangeHardwarePrice(v) ==
    /\ v # hardware_price
    /\ hardware_price' = v
    /\ data' = Rerun(years_list, units_sold, v, hardware_cost,
                     subscription_fee, subscription_cost, initial_investment)
    /\ UNCHANGED <<years_list, units_sold, hardware_cost, subscription_fee,
                   subscription_cost, initial_investment>>

\* line 65
ChangeSubscriptionFee(v) ==
    /\ v # subscription_fee
    /\ subscription_fee' = v
    /\ data' = Rerun(years_list, units_sold, hardware_price, hardware_cost,
                     v, subscription_cost, initial_investment)
    /\ UNCHANGED <<years_list, units_sold, hardware_price, hardware_cost,
                   subscription_cost, initial_investment>>

\* line 73
ChangeHardwareCost(v) ==
    /\ v # hardware_cost
    /\ hardware_cost' = v
    /\ data' = Rerun(years_list, units_sold, hardware_price, v,
                     subscription_fee, subscription_cost, initial_investment)
    /\ UNCHANGED <<years_list, units_sold, hardware_price, subscription_fee,
                   subscription_cost, initial_investment>>

\* line 81
ChangeSubscriptionCost(v) ==
    /\ v # subscription_cost
    /\ subscription_cost' = v
    /\ data' = Rerun(years_list, units_sold, hardware_price, hardware_cost,
                     subscription_fee, v, initial_investment)
    /\ UNCHANGED <<years_list, units_sold, hardware_price, hardware_cost,
                   subscription_fee, initial_investment>>

\* line 97, widget k
ChangeUnitsSold(k, v) ==
    /\ k \in 1..Len(units_sold)
    /\ v # units_sold[k]
    /\ units_sold' = [units_sold EXCEPT ![k] = v]
    /\ data' = Rerun(years_list, units_sold', hardware_price, hardware_cost,
                     subscription_fee, subscription_cost, initial_investment)
    /\ UNCHANGED <<years_list, hardware_price, hardware_cost, subscription_fee,
                   subscription_cost, initial_investment>>

Next ==
    \/ \E n \in YearChoices : ChangeYears(n)
    \/ \E v \in InvestmentChoices : ChangeInitialInvestment(v)
    \/ \E v \in HardwarePriceChoices : ChangeHardwarePrice(v)
    \/ \E v \in SubscriptionFeeChoices : ChangeSubscriptionFee(v)
    \/ \E v \in HardwareCostChoices : ChangeHardwareCost(v)
    \/ \E v \in SubscriptionCostChoices : ChangeSubscriptionCost(v)
    \/ \E k \in 1..Min(YearsMax, YearsShown) : \E v \in UnitChoices : ChangeUnitsSold(k, v)

Spec == Init /\ [][Next]_vars

(***************************************************************************)
(* The calculator called directly: the arguments are drawn from bounded    *)
(* sets that include the cases its contract excludes (sequences of         *)
(* different lengths, the empty sequence, negative economics, a zero       *)
(* investment), then the call is made.                                     *)
(***************************************************************************)
NotCalled == [outcome |-> "pending", rows |-> <<>>]

YearArgs == {[i \in 1..n |-> b + i] : n \in 0..MaxLen, b \in {0, 2024}}
UnitArgs == UNION {[1..n -> {0, UnitsDefault}] : n \in 0..MaxLen}
HardwarePriceArgs == {-1000, 0, HardwarePriceDefault}
HardwareCostArgs == {-1000, HardwareCostDefault}
SubscriptionFeeArgs == {-100, 0, SubscriptionFeeDefault}
SubscriptionCostArgs == {-50, SubscriptionCostDefault}
InvestmentArgs == {0, 100000, InvestmentDefault}

CalcInit ==
    /\ years_list \in YearArgs
    /\ units_sold \in UnitArgs
    /\ hardware_price \in HardwarePriceArgs
    /\ hardware_cost \in HardwareCostArgs
    /\ subscription_fee \in SubscriptionFeeArgs
    /\ subscription_cost \in SubscriptionCostArgs
    /\ initial_investment \in InvestmentArgs
    /\ data = NotCalled

Call ==
    /\ data = NotCalled
    /\ data' = calculate_projections(years_list, units_sold, hardware_price,
                   hardware_cost, subscription_fee, subscription_cost,
                   initial_investment)
    /\ UNCHANGED <<years_list, units_sold, hardware_price, hardware_cost,
                   subscription_fee, subscription_cost, initial_investment>>

CalcNext == Call

SpecCalc == CalcInit /\ [][CalcNext]_vars

(***************************************************************************)
(* Properties                                                              *)
(***************************************************************************)
Called == data # NotCalled

Returned == data.outcome = "ok"

Rows == data.rows

\* the installed base by its recurrence: base[0] = 0, base[i] = base[i-1] + units_sold[i]
InstalledBase[i \in 0..Len(units_sold)] ==
    IF i = 0 THEN 0 ELSE InstalledBase[i - 1] + units_sold[i]

\* C1: in every returned table, recurring revenue and the recurring part of
\* the costs of year i are the installed base (units_sold[0] + ... +
\* units_sold[i]) times the subscription fee / subscription cost, and the
\* hardware revenue and hardware part of the costs are units_sold[i] times
\* the hardware price / hardware cost.
C1_InstalledBaseAccrual ==
    Returned =>
        /\ Len(Rows) = Len(years_list)
        /\ \A i \in 1..Len(Rows) :
              /\ Rows[i].RecurringRevenue = InstalledBase[i] * subscription_fee
              /\ Rows[i].HardwareRevenue = units_sold[i] * hardware_price
              /\ Rows[i].TotalCosts = units_sold[i] * hardware_cost
                                        + InstalledBase[i] * subscription_cost

C1_Witness ==
    /\ Returned
    /\ units_sold = <<100, 100>>
    /\ subscription_fee = 2000
    /\ Rows[1].RecurringRevenue = 200000
    /\ Rows[2].RecurringRevenue = 400000

\* C2: a call with initial_investment = 0 and at least one year raises: it
\* returns no table (so no ROI column holding infinity), and when nothing
\* else is wrong with the arguments the error is ZeroDivisionError.
C2_ZeroInvestmentRaises ==
    (Called /\ initial_investment = 0 /\ Len(years_list) >= 1) =>
        /\ data.outcome \in {"ZeroDivisionError", "IndexError"}
        /\ Rows = <<>>
        /\ Len(years_list) <= Len(units_sold) => data.outcome = "ZeroDivisionError"

C2_Witness ==
    /\ Called
    /\ initial_investment = 0
    /\ Len(years_list) = 2
    /\ Len(units_sold) = 2
    /\ data.outcome = "ZeroDivisionError"

\* the inputs section 7 of the specification calls InvalidInput
InvalidInput ==
    \/ Len(years_list) # Len(units_sold)
    \/ hardware_price < 0 \/ hardware_cost < 0
    \/ subscription_fee < 0 \/ subscription_cost < 0
    \/ Len(years_list) = 0

\* C3: a call with invalid input (sequences of different lengths, a negative
\* economics value, an empty year sequence) ends in an error and yields no
\* table.
C3_InvalidInputRejected == (Called /\ InvalidInput) => ~Returned

\* the inputs for which no year's total revenue is negative
NonNegativeRevenueInputs ==
    /\ \A i \in 1..Len(units_sold) : units_sold[i] >= 0
    /\ hardware_price >= 0
    /\ subscription_fee >= 0

C5_InvestmentPositiveAtCall == initial_investment > 0

\* C6: cumulative revenue is the running sum of total revenue
\* (cumulative[0] = total[0], cumulative[i] = cumulative[i-1] + total[i]),
\* so the last row holds the sum over all years, and
\* roi[i] = (cumulative[i] - initial_investment) / initial_investment * 100.
C6_CumulativeRevenue ==
    Returned =>
        /\ Len(Rows) = Len(years_list)
        /\ \A i \in 1..Len(Rows) :
              /\ Rows[i].CumulativeRevenue =
                    (IF i = 1 THEN 0 ELSE Rows[i - 1].CumulativeRevenue)
                        + Rows[i].TotalRevenue
              /\ Rows[i].ROI =
                    Frac((Rows[i].CumulativeRevenue - initial_investment) * 100,
                         initial_investment)
        /\ Len(Rows) >= 1 =>
              Rows[Len(Rows)].CumulativeRevenue =
                  Sum([i \in 1..Len(Rows) |-> Rows[i].TotalRevenue])

C6_Witness ==
    /\ Returned
    /\ Len(Rows) = 2
    /\ initial_investment = 6000000
    /\ Rows[1].CumulativeRevenue = 1700000
    /\ Rows[2].TotalRevenue = 1900000
    /\ Rows[2].CumulativeRevenue = 3600000
    /\ Rows[1].ROI = [num |-> -215, den |-> 3]

\* C7: a returned table has one row per year in input order, row i carrying
\* years[i] and units_sold[i], and the call on the first k years and unit
\* counts returns exactly its first k rows.
C7_PrefixRows ==
    (Returned /\ Len(years_list) = Len(units_sold)) =>
        /\ Len(Rows) = Len(years_list)
        /\ \A i \in 1..Len(Rows) :
              /\ Rows[i].Year = years_list[i]
              /\ Rows[i].UnitsSold = units_sold[i]
        /\ \A k \in 0..Len(years_list) :
              calculate_projections(Slice(years_list, k), Slice(units_sold, k),
                  hardware_price, hardware_cost, subscription_fee,
                  subscription_cost, initial_investment)
              = [outcome |-> "ok", rows |-> SubSeq(Rows, 1, k)]

C7_Witness ==
    /\ Returned
    /\ Len(Rows) >= 3
    /\ years_list[1] = 2025
    /\ units_sold[1] # units_sold[2]
    /\ subscription_fee > 0
    /\ Rows[3].Year = 2027

\* C8: after every change the dashboard holds the outcome of
\* calculate_projections on the current widget values and nothing else, so
\* what is shown is a function of the current inputs alone.
C8_TableOfCurrentInputs ==
    data = calculate_projections(years_list, units_sold, hardware_price,
               hardware_cost, subscription_fee, subscription_cost,
               initial_investment)

C8_Witness ==
    /\ Returned
    /\ Len(years_list) = 2
    /\ units_sold = <<0, 100>>
    /\ hardware_price = 0
    /\ hardware_cost = 0
    /\ Len(Rows) = 2
    /\ Rows[1].TotalRevenue = 0
    /\ Rows[2].Profit = 100 * (subscription_fee - subscription_cost)

\* C9: every row decomposes additively: total revenue = hardware revenue +
\* recurring revenue, total costs = hardware costs + recurring costs, and
\* profit = total revenue - total costs.
C9_AdditiveDecomposition ==
    Returned =>
        \A i \in 1..Len(Rows) :
            /\ Rows[i].TotalRevenue = Rows[i].HardwareRevenue + Rows[i].RecurringRevenue
            /\ Rows[i].TotalCosts =
                  hardware_costs(units_sold, hardware_cost)[i]
                    + recurring_costs(years_list, units_sold, subscription_cost)[i]
            /\ Rows[i].Profit = Rows[i].TotalRevenue - Rows[i].TotalCosts

C9_Witness ==
    /\ Returned
    /\ units_sold = <<100, 100>>
    /\ Rows[1].HardwareRevenue = 1500000
    /\ Rows[1].TotalRevenue = 1700000
    /\ Rows[1].TotalCosts = 1150000
    /\ Rows[1].Profit = 550000

\* C10: for non-negative units, price and fee and a positive investment, the
\* installed base, the cumulative revenue and the ROI never decrease from one
\* year to the next, and no ROI is below -100.
C10_Monotone ==
    (Returned /\ NonNegativeRevenueInputs /\ initial_investment > 0) =>
        /\ \A i \in 2..Len(units_sold) :
              total_units_in_market(units_sold)[i]
                  >= total_units_in_market(units_sold)[i - 1]
        /\ \A i \in 2..Len(Rows) :
              /\ Rows[i].CumulativeRevenue >= Rows[i - 1].CumulativeRevenue
              /\ Leq(Rows[i - 1].ROI, Rows[i].ROI)
        /\ \A i \in 1..Len(Rows) : Leq([num |-> -100, den |-> 1], Rows[i].ROI)

C10_Witness ==
    /\ Returned
    /\ NonNegativeRevenueInputs
    /\ initial_investment > 0
    /\ Len(Rows) >= 3
    /\ Rows[1].ROI = [num |-> -100, den |-> 1]
    /\ Rows[2].ROI # Rows[1].ROI
    /\ Rows[3].ROI = Rows[2].ROI

====
